---- MODULE Spec2Model ----
(***************************************************************************)
(* Adaptive Lighting API: the reading-to-brightness pipeline of main.py,   *)
(* the history endpoints of led_routers.py, the direct-to-database helpers *)
(* of interfact.py and the override client of led_dashboard.py.            *)
(*                                                                         *)
(* Tables are sequences: a row's autoincrement id is its index.  The       *)
(* column default ts = datetime.utcnow is the value of the clock `now` at  *)
(* the INSERT, and the clock is an integer number of hours that may stand  *)
(* still between two operations (two rows can carry the same ts).          *)
(* `resp` is the response on its way to the client of an override or a     *)
(* query; the stores are as that request left them until Return hands it   *)
(* over.  A brightness row carries one history field, `by`: the id of the  *)
(* reading whose fan-out wrote it, 0 for a manual override.  The program   *)
(* does not store it and no action reads it.  A request remembers in       *)
(* `after` the requests that had been answered when it arrived.            *)
(***************************************************************************)
EXTENDS Integers, Sequences, FiniteSets, TLC

VARIABLES readings, brightness, reqs, now, resp, calc

vars == <<readings, brightness, reqs, now, resp, calc>>

(* ------------------------------ bounds --------------------------------- *)
MaxReadings == 2      \* ingest requests per behaviour
MaxOverrides == 1     \* accepted overrides per behaviour
MaxTime == 2          \* last value of the clock
LuxLow == 5           \* the decision engine is explored on -LuxLow .. LuxHigh
LuxHigh == 605

(* ------------------------- program constants --------------------------- *)
HoursMin == 1
HoursMax == 168
LevelMin == 0
LevelMax == 100

(* ------------------------- registered entities ------------------------- *)
\* sensors 1..2 and fixtures 1..3 are registered; fixture 4 is not.
Sensors == {1, 2}
Leds == {1, 2, 3}
LedIds == Leds \cup {4}
\* sensor 1 drives fixtures 1 and 2, sensor 2 drives nothing; fixture 3 has
\* no sensor link.
sensor_led_map == {<<1, 1>>, <<1, 2>>}

LuxInputs == {650}
HoursInputs == {0, HoursMin, HoursMax}
LevelInputs == {-1, 75, 101}

None == -1

(* ------------------------------ helpers -------------------------------- *)
Range(s) == {s[i] : i \in 1..Len(s)}

Injective(s) == \A i, j \in 1..Len(s) : s[i] = s[j] => i = j

\* every order in which a query without ORDER BY may return the set S
Orders(S) == {s \in [1..Cardinality(S) -> S] : \A x \in S : \E i \in DOMAIN s : s[i] = x}

\* the elements of a set of integers in ascending order
Ascending(S) == CHOOSE s \in Orders(S) : \A i, j \in 1..Len(s) : i < j => s[i] < s[j]

(* --------------------------- decision engine --------------------------- *)
\* variant: the thresholds are compared strictly
calculate_level_gt(lux, people) ==
  IF ~people THEN 0
  ELSE IF lux > 600 THEN 10
  ELSE IF lux > 400 THEN 40
  ELSE IF lux > 200 THEN 70
  ELSE 100

\* variant: an empty room is reported as -1 instead of 0
calculate_level_off(lux, people) ==
  IF ~people THEN 0 - 1
  ELSE IF lux >= 600 THEN 10
  ELSE IF lux >= 400 THEN 40
  ELSE IF lux >= 200 THEN 70
  ELSE 100

\* main.calculate_level
calculate_level(lux, people) ==
  IF ~people THEN 0
  ELSE IF lux >= 600 THEN 10
  ELSE IF lux >= 400 THEN 40
  ELSE IF lux >= 200 THEN 70
  ELSE 100

(* ------------------------------- store --------------------------------- *)
\* variant: the reading is stored only when its sensor drives a fixture
StoreReadingIfLinked(rs, sensor_id, lux, people, ts) ==
  IF \E l \in Leds : <<sensor_id, l>> \in sensor_led_map
  THEN Append(rs, [sensor_id |-> sensor_id, lux |-> lux, people |-> people, ts |-> ts])
  ELSE rs

\* db.add(reading); db.commit(): one new row, ts from the column default
StoreReading(rs, sensor_id, lux, people, ts) ==
  Append(rs, [sensor_id |-> sensor_id, lux |-> lux, people |-> people, ts |-> ts])

\* variant: the join without the filter on sensor_id
FixturesForSensorNoFilter(sensor_id) == Leds

\* db.query(Led.id).join(sensor_led_map).filter(sensor_id == ...)

FixturesForSensor(sensor_id) ==
  {l \in Leds : <<sensor_id, l>> \in sensor_led_map}

\* variant: every added object is committed at once
SessionAddAutocommit(table, session, led_id, level, ts, by) ==
  <<Append(table, [led_id |-> led_id, level |-> level, ts |-> ts, by |-> by]), session>>

\* db.add(BrightnessLevel(led_id, level)): the object is pending in the
\* session, the table is untouched.  Result: <<table, session>>.
SessionAdd(table, session, led_id, level, ts, by) ==
  <<table, Append(session, [led_id |-> led_id, level |-> level])>>

\* the pending objects as rows: ts from the column default at the INSERT
Stamp(session, ts, by) ==
  [i \in 1..Len(session) |->
     [led_id |-> session[i].led_id, level |-> session[i].level, ts |-> ts, by |-> by]]

\* variant: a commit replaces the rows the fixtures already have
CommitUpsert(table, session, ts, by) ==
  SelectSeq(table, LAMBDA r : \A i \in 1..Len(session) : session[i].led_id # r.led_id)
    \o Stamp(session, ts, by)

\* db.commit(): every pending object is inserted in one transaction
Commit(table, session, ts, by) == table \o Stamp(session, ts, by)

FixtureExists(led_id) == led_id \in Leds

(* ------------------------------ queries -------------------------------- *)
\* variant: the cutoff itself is outside the window
InWindowStrict(ts, cutoff) == ts > cutoff

\* .filter(BrightnessLevel.ts >= cutoff)

InWindow(ts, cutoff) == ts >= cutoff

\* ids of the rows of a fixture inside the window
WindowRows(table, led_id, cutoff) ==
  {i \in 1..Len(table) : table[i].led_id = led_id /\ InWindow(table[i].ts, cutoff)}

\* .order_by(BrightnessLevel.ts).all(): every ascending order of the rows
\* (rows with the same ts come in an order the database chooses)
OrderedByTs(table, I) ==
  {s \in Orders(I) : \A i, j \in 1..Len(s) : i < j => table[s[i]].ts <= table[s[j]].ts}

\* variant: 404 whenever no row was found
HistoryNotFoundNoRows(rows, led_id) == rows = <<>>

\* led_history's guard: 404 only if no row was found and the id is unknown

HistoryNotFound(rows, led_id) == rows = <<>> /\ ~FixtureExists(led_id)

\* .order_by(BrightnessLevel.ts.desc()).first(): a row of the fixture with
\* the greatest ts; which one, among several, the database chooses
LatestRows(table, led_id) ==
  {i \in 1..Len(table) :
     /\ table[i].led_id = led_id
     /\ \A j \in 1..Len(table) : table[j].led_id = led_id => table[j].ts <= table[i].ts}

\* the levels fetch_latest_brightness can return for a fixture now
LatestLevels(led_id) ==
  IF LatestRows(brightness, led_id) = {} THEN {None}
  ELSE {brightness[i].level : i \in LatestRows(brightness, led_id)}

(* ----------------------------- responses ------------------------------- *)
Response(op, led_id, arg, status, rows) ==
  [op |-> op, led_id |-> led_id, arg |-> arg, status |-> status, rows |-> rows]

NoResponse ==
  [op |-> "none", led_id |-> 0, arg |-> 0, status |-> 0, rows |-> <<>>]

NoCalc == [pc |-> "idle", lux |-> 0, people |-> FALSE, level |-> None]

\* no response is on its way to a client
Idle == resp = NoResponse

(* ------------------------------- Init ---------------------------------- *)
Init ==
  /\ readings = <<>>
  /\ brightness = <<>>
  /\ reqs = <<>>
  /\ now = 0
  /\ resp = NoResponse
  /\ calc = NoCalc

(* ------------------------------ ingest --------------------------------- *)
\* ingest_reading, step 1: the raw reading is added and committed
IngestStore(sensor_id, lux, people) ==
  /\ Idle
  /\ Len(reqs) < MaxReadings
  /\ readings' = StoreReading(readings, sensor_id, lux, people, now)
  /\ reqs' = Append(reqs,
       [sensor_id |-> sensor_id, lux |-> lux, people |-> people,
        rid |-> Len(readings'), pc |-> "stored", led_ids |-> <<>>, level |-> None,
        session |-> <<>>, status |-> 0,
        after |-> {j \in 1..Len(reqs) : reqs[j].status # 0}])
  /\ UNCHANGED <<brightness, now, resp, calc>>

\* ingest_reading, step 1 fails: db.commit() raises, the request is aborted
\* with a server error and leaves nothing behind
IngestStoreFail(sensor_id, lux, people) ==
  /\ Idle
  /\ Len(reqs) < MaxReadings
  /\ resp' = Response("ingest_reading", 0, sensor_id, 500, <<>>)
  /\ UNCHANGED <<readings, brightness, reqs, now, calc>>

\* ingest_reading, steps 2-4: resolve the fixtures, decide the level,
\* schedule persist_brightness, return the reading (201).  The join has no
\* ORDER BY; its rows are taken in the order of the primary key
\* (sensor_id, led_id) of sensor_led_map, by which they are read.
IngestRespond(q) ==
  /\ Idle
  /\ q \in 1..Len(reqs)
  /\ reqs[q].pc = "stored"
  /\ LET ids == Ascending(FixturesForSensor(reqs[q].sensor_id)) IN
       reqs' = [reqs EXCEPT ![q].led_ids = ids,
                            ![q].level = calculate_level(reqs[q].lux, reqs[q].people),
                            ![q].status = 201,
                            ![q].pc = "scheduled"]
  /\ UNCHANGED <<readings, brightness, now, resp, calc>>

\* persist_brightness, one turn of the loop: db.add(BrightnessLevel(...))
PersistAdd(q) ==
  /\ Idle
  /\ q \in 1..Len(reqs)
  /\ reqs[q].pc = "scheduled"
  /\ Len(reqs[q].session) < Len(reqs[q].led_ids)
  /\ LET k == Len(reqs[q].session) + 1
         r == SessionAdd(brightness, reqs[q].session, reqs[q].led_ids[k],
                         reqs[q].level, now, reqs[q].rid)
     IN /\ brightness' = r[1]
        /\ reqs' = [reqs EXCEPT ![q].session = r[2]]
  /\ UNCHANGED <<readings, now, resp, calc>>

\* persist_brightness, after the loop: db.commit()
PersistCommit(q) ==
  /\ Idle
  /\ q \in 1..Len(reqs)
  /\ reqs[q].pc = "scheduled"
  /\ Len(reqs[q].session) = Len(reqs[q].led_ids)
  /\ brightness' = Commit(brightness, reqs[q].session, now, reqs[q].rid)
  /\ reqs' = [reqs EXCEPT ![q].session = <<>>, ![q].pc = "done"]
  /\ UNCHANGED <<readings, now, resp, calc>>

\* persist_brightness raises (the store is unavailable): the transaction is
\* lost with its pending objects; the response has been sent already
PersistFail(q) ==
  /\ Idle
  /\ q \in 1..Len(reqs)
  /\ reqs[q].pc = "scheduled"
  /\ reqs' = [reqs EXCEPT ![q].session = <<>>, ![q].pc = "failed"]
  /\ UNCHANGED <<readings, brightness, now, resp, calc>>

(* ------------------------------ override ------------------------------- *)
\* BrightnessOverrideIn: led_id: int, level: int (no range on either)
BrightnessOverrideIn(led_id, level) == led_id \in Int /\ level \in Int

\* POST /api/override_brightness, the endpoint override_brightness calls:
\* the level is validated, then the fixture, then one row is appended
OverrideStatus(led_id, level) ==
  IF ~BrightnessOverrideIn(led_id, level) \/ level < LevelMin \/ level > LevelMax THEN 422
  ELSE IF ~FixtureExists(led_id) THEN 404
  ELSE 201

OverrideEndpoint(table, led_id, level, ts) ==
  IF OverrideStatus(led_id, level) = 201
  THEN Commit(table, <<[led_id |-> led_id, level |-> level]>>, ts, 0)
  ELSE table

\* led_dashboard.override_brightness: the POST; True iff it answered 201
override_brightness(led_id, level) ==
  /\ Idle
  /\ Cardinality({i \in 1..Len(brightness) : brightness[i].by = 0}) < MaxOverrides
  /\ brightness' = OverrideEndpoint(brightness, led_id, level, now)
  /\ resp' = Response("override", led_id, level, OverrideStatus(led_id, level), <<>>)
  /\ UNCHANGED <<readings, reqs, now, calc>>

(* ------------------------------ queries -------------------------------- *)
\* GET /api/leds/{led_id}/history?hours=
led_history(led_id, hours) ==
  /\ Idle
  /\ IF hours < HoursMin \/ hours > HoursMax
     THEN resp' = Response("led_history", led_id, hours, 422, <<>>)
     ELSE \E rows \in OrderedByTs(brightness, WindowRows(brightness, led_id, now - hours)) :
            resp' = IF HistoryNotFound(rows, led_id)
                    THEN Response("led_history", led_id, hours, 404, <<>>)
                    ELSE Response("led_history", led_id, hours, 200, rows)
  /\ UNCHANGED <<readings, brightness, reqs, now, calc>>

\* interfact.fetch_history(led_id, hours)
fetch_history(led_id, hours) ==
  /\ Idle
  /\ \E rows \in OrderedByTs(brightness, WindowRows(brightness, led_id, now - hours)) :
       resp' = Response("fetch_history", led_id, hours, 200, rows)
  /\ UNCHANGED <<readings, brightness, reqs, now, calc>>

\* interfact.fetch_latest_brightness(led_id)
fetch_latest_brightness(led_id) ==
  /\ Idle
  /\ IF LatestRows(brightness, led_id) = {}
     THEN resp' = Response("fetch_latest_brightness", led_id, 0, 200, <<>>)
     ELSE \E i \in LatestRows(brightness, led_id) :
            resp' = Response("fetch_latest_brightness", led_id, 0, 200, <<i>>)
  /\ UNCHANGED <<readings, brightness, reqs, now, calc>>

\* GET /api/leds: every fixture, ascending by id
list_leds ==
  /\ Idle
  /\ resp' = Response("list_leds", 0, 0, 200,
                      [i \in 1..Cardinality(Leds) |-> i])
  /\ UNCHANGED <<readings, brightness, reqs, now, calc>>

\* the response reaches the client
Return ==
  /\ ~Idle
  /\ resp' = NoResponse
  /\ UNCHANGED <<readings, brightness, reqs, now, calc>>

(* ------------------------------- clock --------------------------------- *)
Tick ==
  /\ Idle
  /\ now < MaxTime
  /\ now' = now + 1
  /\ UNCHANGED <<readings, brightness, reqs, resp, calc>>

Next ==
  \/ \E s \in Sensors, lux \in LuxInputs, p \in BOOLEAN : IngestStore(s, lux, p)
  \/ \E s \in Sensors, lux \in LuxInputs, p \in BOOLEAN : IngestStoreFail(s, lux, p)
  \/ \E q \in 1..MaxReadings : IngestRespond(q)
  \/ \E q \in 1..MaxReadings : PersistAdd(q)
  \/ \E q \in 1..MaxReadings : PersistCommit(q)
  \/ \E q \in 1..MaxReadings : PersistFail(q)
  \/ \E l \in LedIds, lv \in LevelInputs : override_brightness(l, lv)
  \/ \E l \in LedIds, h \in HoursInputs : led_history(l, h)
  \/ \E l \in LedIds, h \in HoursInputs : fetch_history(l, h)
  \/ \E l \in LedIds : fetch_latest_brightness(l)
  \/ list_leds
  \/ Return
  \/ Tick

Spec == Init /\ [][Next]_vars

(* ----------------- the decision engine on its own ---------------------- *)
CalcInit ==
  /\ readings = <<>>
  /\ brightness = <<>>
  /\ reqs = <<>>
  /\ now = 0
  /\ resp = NoResponse
  /\ calc \in [pc : {"call"}, lux : (0 - LuxLow)..LuxHigh, people : BOOLEAN, level : {None}]

Calculate ==
  /\ calc.pc = "call"
  /\ calc' = [calc EXCEPT !.level = calculate_level(calc.lux, calc.people), !.pc = "return"]
  /\ UNCHANGED <<readings, brightness, reqs, now, resp>>

CalcNext == Calculate

CalcSpec == CalcInit /\ [][CalcNext]_vars

(* ======================== properties of the code ======================= *)
RowsBy(rid) == {i \in 1..Len(brightness) : brightness[i].by = rid}

LedsOf(I) == {brightness[i].led_id : i \in I}

Linked(sensor_id) == {l \in Leds : <<sensor_id, l>> \in sensor_led_map}

QueryOps == {"led_history", "fetch_history", "fetch_latest_brightness", "list_leds"}

\* C1: calculate_level returns 0 when people is false, and for people true
\* 10 if lux >= 600, 40 if 400 <= lux < 600, 70 if 200 <= lux < 400, 100 if
\* lux < 200 (negative lux included); the result is in {0,10,40,70,100}.
C1_DecisionTable ==
  calc.pc = "return" =>
    /\ calc.level \in {0, 10, 40, 70, 100}
    /\ ~calc.people => calc.level = 0
    /\ calc.people /\ calc.lux >= 600 => calc.level = 10
    /\ calc.people /\ 400 <= calc.lux /\ calc.lux < 600 => calc.level = 40
    /\ calc.people /\ 200 <= calc.lux /\ calc.lux < 400 => calc.level = 70
    /\ calc.people /\ calc.lux < 200 => calc.level = 100

C1_Witness ==
  calc.pc = "return" /\ calc.people /\ calc.lux < 0 /\ calc.level = 100

\* C2: once the fan-out of a reading has completed, the rows written for
\* that reading are exactly one per fixture linked to its sensor, all at the
\* level decided for the reading; no fan-out row belongs to a fixture that
\* is not linked to the reading's sensor.
C2_FanOutComplete ==
  /\ \A q \in 1..Len(reqs) :
       reqs[q].pc = "done" =>
         LET rd == readings[reqs[q].rid]
             R == RowsBy(reqs[q].rid)
         IN /\ Cardinality(R) = Cardinality(Linked(rd.sensor_id))
            /\ LedsOf(R) = Linked(rd.sensor_id)
            /\ \A i \in R : brightness[i].level = calculate_level(rd.lux, rd.people)
  /\ \A i \in 1..Len(brightness) :
       brightness[i].by # 0 =>
         <<readings[brightness[i].by].sensor_id, brightness[i].led_id>> \in sensor_led_map

C2_Witness ==
  \E q \in 1..Len(reqs) :
    /\ reqs[q].pc = "done"
    /\ Cardinality(RowsBy(reqs[q].rid)) = 2
    /\ \E p \in 1..Len(reqs) : reqs[p].pc = "done" /\ reqs[p].sensor_id = 2

\* C3: the raw reading of an ingest is in the store before its fixtures are
\* resolved and before any of its brightness rows exists, also when the
\* sensor has no fixture; a failed fan-out leaves the reading stored and the
\* 201 already answered.
C3_ReadingFirst ==
  /\ \A q \in 1..Len(reqs) :
       /\ reqs[q].rid \in 1..Len(readings)
       /\ readings[reqs[q].rid].sensor_id = reqs[q].sensor_id
       /\ readings[reqs[q].rid].lux = reqs[q].lux
       /\ readings[reqs[q].rid].people = reqs[q].people
       /\ reqs[q].pc = "stored" =>
            reqs[q].led_ids = <<>> /\ RowsBy(reqs[q].rid) = {} /\ reqs[q].status = 0
       /\ reqs[q].pc \in {"scheduled", "done", "failed"} => reqs[q].status = 201
  /\ \A i \in 1..Len(brightness) :
       brightness[i].by # 0 => brightness[i].by \in 1..Len(readings)

C3_Witness ==
  \E p, q \in 1..Len(reqs) :
    /\ reqs[p].pc = "failed" /\ Len(reqs[p].led_ids) = 2
    /\ reqs[p].rid \in 1..Len(readings) /\ reqs[p].status = 201
    /\ reqs[q].pc = "done" /\ reqs[q].led_ids = <<>>
    /\ reqs[q].rid \in 1..Len(readings)

C5_NotFoundIff ==
  (resp.op = "led_history" /\ resp.status # 422) =>
    /\ resp.status = 404 <=> resp.led_id \notin Leds
    /\ (resp.led_id \in Leds
          /\ ~\E i \in 1..Len(brightness) :
                brightness[i].led_id = resp.led_id /\ brightness[i].ts >= now - resp.arg)
         => resp.status = 200 /\ resp.rows = <<>>

C5_Witness ==
  /\ resp.op = "led_history" /\ resp.status = 200 /\ resp.rows = <<>>
  /\ \E i \in 1..Len(brightness) : brightness[i].led_id = resp.led_id

\* C6: right after an accepted override(fixture, L), the latest brightness
\* of the fixture is L, whatever decision-engine rows the fixture has and
\* whatever their timestamps.
C6_OverrideIsLatest ==
  (resp.op = "override" /\ resp.status = 201
     /\ \A i \in 1..Len(brightness) - 1 : brightness[i].by # 0) =>
    LatestLevels(resp.led_id) = {resp.arg}

C8_SecondReadingWins ==
  \A p, q \in 1..Len(reqs) :
    (/\ p \in reqs[q].after
     /\ reqs[p].sensor_id = reqs[q].sensor_id
     /\ reqs[p].pc = "done" /\ reqs[q].pc = "done"
     /\ \A i \in 1..Len(brightness) : brightness[i].by \in {reqs[p].rid, reqs[q].rid})
    => \A l \in Linked(reqs[q].sensor_id) : LatestLevels(l) = {reqs[q].level}

\* C9: reading rows and brightness rows are append-only: a step keeps every
\* existing row as it is, and a query changes neither table.
C9_AppendOnly ==
  [][/\ Len(readings') >= Len(readings)
     /\ \A i \in 1..Len(readings) : readings'[i] = readings[i]
     /\ Len(brightness') >= Len(brightness)
     /\ \A i \in 1..Len(brightness) : brightness'[i] = brightness[i]
     /\ (resp'.op \in QueryOps /\ resp' # resp) =>
          readings' = readings /\ brightness' = brightness]_vars

C9_Witness ==
  /\ resp.op = "led_history" /\ Len(resp.rows) = 2
  /\ Len(readings) = 2
  /\ \E i \in 1..Len(brightness) : brightness[i].by = 0

\* C10: the rows of one reading become visible together: at no time do
\* some of the reading's fixtures have its row and others not, and a failed
\* fan-out leaves none of them.
C10_FanOutAtomic ==
  \A q \in 1..Len(reqs) :
    /\ LedsOf(RowsBy(reqs[q].rid)) \in {{}, Range(reqs[q].led_ids)}
    /\ reqs[q].pc \in {"scheduled", "failed"} => RowsBy(reqs[q].rid) = {}

C10_Witness ==
  /\ resp.op = "fetch_latest_brightness" /\ resp.rows = <<>>
  /\ \E q \in 1..Len(reqs) :
       /\ reqs[q].pc = "scheduled"
       /\ Len(reqs[q].session) = 1 /\ Len(reqs[q].led_ids) = 2
       /\ resp.led_id = reqs[q].led_ids[1]

====
